---- MODULE Spec2Model ----
(***************************************************************************)
(* A model of duckietown's DTROS node supervisor (dtros.py) and of its     *)
(* switchable publisher (dtpublisher.py).                                  *)
(*                                                                         *)
(* Handlers are operators that compute what a call does from what it       *)
(* reads; the actions below apply them to the state.  The state space of   *)
(* the whole node is the product of its parts, so each specification runs  *)
(* the calls one part needs:                                               *)
(*   Spec            the parameters and their services                     *)
(*   SpecSingleton   constructions of the node                             *)
(*   SpecChannels    the ~switch service and the channels                  *)
(*   SpecHealth      set_health, log and the shutdown hook                 *)
(*   SpecDiag        the calls that report to the diagnostics manager      *)
(*   SpecNode        every call, one at a time, with few inputs            *)
(*   SpecSwitchRace  two ~switch calls whose statements interleave         *)
(*   SpecRegisterRace  ~switch calls whose statements interleave with the  *)
(*                   registration of channels                              *)
(*   SpecHealthRace  two set_health calls whose statements interleave      *)
(*   SpecPublishRace a publish whose statements interleave with writes of  *)
(*                   the channel's active flag                             *)
(***************************************************************************)
EXTENDS Integers, Sequences, FiniteSets, TLC

(***************************************************************************)
(* Bounds of the model.                                                    *)
(***************************************************************************)
MaxChannels == 2
MaxParams == 2

(***************************************************************************)
(* Python values.  Every value carries its Python type in the field py, so *)
(* that isinstance() and str() are computed, and so that a str never       *)
(* equals an object of another type.                                       *)
(***************************************************************************)
NoneVal == [py |-> "None"]
PyStr(s) == [py |-> "str", s |-> s]
PyInt(n) == [py |-> "int", n |-> n]
Enum(cls, n) == [py |-> cls, name |-> n]

isinstance(v, cls) == v.py = cls

str(v) ==
  CASE v.py = "str" -> v.s
    [] v.py = "int" -> ToString(v.n)
    [] v.py = "None" -> "None"
    [] OTHER -> v.py \o "." \o v.name

\* The members of the NodeHealth enumeration (constants.py).
NodeHealthNames == {"UNKNOWN", "STARTING", "HEALTHY", "WARNING", "ERROR", "FATAL"}
NodeHealth == {Enum("NodeHealth", n) : n \in NodeHealthNames}

\* The members of the ModuleType enumeration (constants.py); GENERIC is the default.
ModuleType == {Enum("ModuleType", "GENERIC")}

\* The class object DTParam, and the DTParam instances application code creates.
DTParamClass == [py |-> "type", name |-> "DTParam"]
ParamNameOf(i) == IF i % 2 = 1 THEN "~p" ELSE "~q"
DTParam(i) == [py |-> "DTParam", id |-> i, name |-> ParamNameOf(i)]
DTParams == {DTParam(i) : i \in 1..MaxParams}

(***************************************************************************)
(* Inputs.                                                                 *)
(***************************************************************************)
NodeNames == {"a", "b"}
Msgs == {"m"}
Payloads == {"x", "y"}
LogTypes == {"debug", "info", "warn", "warning", "err", "error", "fatal", "trace"}
HealthArgs == NodeHealth \cup {PyStr("WARNING"), NoneVal}
ReasonArgs == {NoneVal, PyStr("r"), PyInt(7)}
NodeTypeArgs == ModuleType \cup {PyStr("GENERIC")}
ParamArgs == DTParams \cup {PyStr("~p")}
ParamRequests == {"~p", "~missing"}
Threads == {1, 2}

VARIABLES
  __instance__,     \* rospy.__instance__: NoneVal, or the DTROS object being built
  initialized,      \* DTROS.__init__ has run to its end
  node_name,        \* self.node_name
  is_shutdown,      \* self.is_shutdown
  _health,          \* self._health
  _health_reason,   \* self._health_reason
  _parameters,      \* self._parameters: the dict, as its <<key, value>> items in insertion order
  _switch,          \* self._switch
  _subscribers,     \* self._subscribers
  _publishers,      \* self._publishers
  kind,             \* the channel objects created so far: "pub" or "sub"
  active,           \* channel.active of each created channel
  diagEnabled,      \* what DTROSDiagnostics.enabled() answers in this process
  last,             \* the call that returned last: arguments, result, what it logged and sent
  sw,               \* the ~switch or set_health calls in progress in threads of their
                    \* own: where each is, and its local variables
  pb                \* the publish call in progress

vars == <<__instance__, initialized, node_name, is_shutdown, _health, _health_reason,
          _parameters, _switch, _subscribers, _publishers, kind, active, diagEnabled,
          last, sw, pb>>

node == <<__instance__, initialized, node_name, is_shutdown, _health, _health_reason,
          _parameters, _switch, _subscribers, _publishers>>

(***************************************************************************)
(* Helpers.                                                                *)
(***************************************************************************)
Range(s) == {s[i] : i \in 1..Len(s)}

\* What a call did, as its caller and the collaborators see it: the exception it
\* raised ("none" when it returned), its return value, the lines it handed to the
\* rospy loggers, its calls on the diagnostics manager, and what it found (seen).
Call(op, arg, exc, ret, logs, notes, seen) ==
  [op |-> op, arg |-> arg, exc |-> exc, ret |-> ret, logs |-> logs, notes |-> notes,
   seen |-> seen]

\* full_msg = '[%s] %s' % (self.node_name, msg)
FullMsg(name, msg) == "[" \o name \o "] " \o msg

\* rospy.get_name(): the node's resolved name.
get_name(name) == "/" \o name

\* dict: d[k] = v keeps the position of a key that is already there.
DictHas(d, k) == \E i \in 1..Len(d) : d[i][1] = k
DictGet(d, k) == d[CHOOSE i \in 1..Len(d) : d[i][1] = k][2]
DictSet(d, k, v) ==
  IF DictHas(d, k)
  THEN [i \in 1..Len(d) |-> IF d[i][1] = k THEN <<k, v>> ELSE d[i]]
  ELSE Append(d, <<k, v>>)
DictValues(d) == [i \in 1..Len(d) |-> d[i][2]]

(***************************************************************************)
(* DTROS.set_health and DTROS.log.  Each yields the exception it raises,   *)
(* the health fields it leaves, the lines it logs and its calls on the     *)
(* diagnostics manager.                                                    *)
(***************************************************************************)
RECURSIVE log(_, _, _, _, _, _)

Unchanged(exc, h0, r0) ==
  [exc |-> exc, _health |-> h0, _health_reason |-> r0, logs |-> <<>>, notes |-> <<>>]

\* update_node(health=..., health_reason=...), if the diagnostics manager is enabled
HealthNote(enabled, health, reason) ==
  IF enabled
  THEN <<[call |-> "update_node", health |-> health, health_reason |-> reason]>>
  ELSE <<>>

\* The isinstance test made after the assignments.
set_health_late_check(name, h0, r0, enabled, health, reason) ==
  LET new_reason == IF reason = NoneVal THEN NoneVal ELSE PyStr(str(reason))
  IN  IF ~isinstance(health, "NodeHealth")
      THEN [Unchanged("ValueError", h0, r0) EXCEPT !._health = health,
                                                   !._health_reason = new_reason]
      ELSE [exc |-> "none", _health |-> health, _health_reason |-> new_reason,
            logs |-> log(name, h0, r0, enabled,
                         "Health status changed [" \o h0.name \o "] -> [" \o health.name \o "]",
                         "info").logs,
            notes |-> HealthNote(enabled, health, new_reason)]

\* A call that would change nothing returns before it logs and notifies.
set_health_dedup(name, h0, r0, enabled, health, reason) ==
  IF ~isinstance(health, "NodeHealth")
  THEN Unchanged("ValueError", h0, r0)
  ELSE LET new_reason == IF reason = NoneVal THEN NoneVal ELSE PyStr(str(reason))
           lg == log(name, h0, r0, enabled,
                     "Health status changed [" \o h0.name \o "] -> [" \o health.name \o "]",
                     "info")
       IN  IF health = h0 /\ new_reason = r0
           THEN Unchanged("none", h0, r0)
           ELSE [exc |-> lg.exc,
                 _health |-> health,
                 _health_reason |-> new_reason,
                 logs |-> lg.logs,
                 notes |-> lg.notes \o HealthNote(enabled, health, new_reason)]

\* The reason assigned only when one is given.
set_health_keep_reason(name, h0, r0, enabled, health, reason) ==
  IF ~isinstance(health, "NodeHealth")
  THEN Unchanged("ValueError", h0, r0)
  ELSE LET new_reason == IF reason = NoneVal THEN r0 ELSE PyStr(str(reason))
           lg == log(name, h0, r0, enabled,
                     "Health status changed [" \o h0.name \o "] -> [" \o health.name \o "]",
                     "info")
       IN  [exc |-> lg.exc,
            _health |-> health,
            _health_reason |-> new_reason,
            logs |-> lg.logs,
            notes |-> lg.notes \o HealthNote(enabled, health, new_reason)]

set_health(name, h0, r0, enabled, health, reason) ==
  IF ~isinstance(health, "NodeHealth")
  THEN Unchanged("ValueError", h0, r0)
  ELSE LET new_reason == IF reason = NoneVal THEN NoneVal ELSE PyStr(str(reason))
           lg == log(name, h0, r0, enabled,
                     "Health status changed [" \o h0.name \o "] -> [" \o health.name \o "]",
                     "info")
       IN  [exc |-> lg.exc,
            _health |-> health,
            _health_reason |-> new_reason,
            logs |-> lg.logs,
            notes |-> lg.notes \o HealthNote(enabled, health, new_reason)]

\* The aliases 'warning' and 'error' without their set_health call.
log_alias_no_health(name, h0, r0, enabled, msg, type) ==
  LET full_msg == FullMsg(name, msg)
      line(sink) == [sink |-> sink, msg |-> full_msg]
      plain(sink) == [Unchanged("none", h0, r0) EXCEPT !.logs = <<line(sink)>>]
      health(h, sink) ==
        LET s == set_health(name, h0, r0, enabled, Enum("NodeHealth", h), PyStr(full_msg))
        IN  [s EXCEPT !.logs = Append(@, line(sink))]
  IN  CASE type = "debug" -> plain("logdebug")
        [] type = "info" -> plain("loginfo")
        [] type = "warn" -> health("WARNING", "logwarn")
        [] type = "warning" -> plain("logwarn")
        [] type = "err" -> health("ERROR", "logerr")
        [] type = "error" -> plain("logerr")
        [] type = "fatal" -> health("FATAL", "logfatal")
        [] OTHER -> Unchanged("ValueError", h0, r0)

\* A severity that is not recognised logged as 'info'.
log_unknown_as_info(name, h0, r0, enabled, msg, type) ==
  LET full_msg == FullMsg(name, msg)
      line(sink) == [sink |-> sink, msg |-> full_msg]
      plain(sink) == [Unchanged("none", h0, r0) EXCEPT !.logs = <<line(sink)>>]
      health(h, sink) ==
        LET s == set_health(name, h0, r0, enabled, Enum("NodeHealth", h), PyStr(full_msg))
        IN  [s EXCEPT !.logs = Append(@, line(sink))]
  IN  CASE type = "debug" -> plain("logdebug")
        [] type \in {"warn", "warning"} -> health("WARNING", "logwarn")
        [] type \in {"err", "error"} -> health("ERROR", "logerr")
        [] type = "fatal" -> health("FATAL", "logfatal")
        [] OTHER -> plain("loginfo")

log(name, h0, r0, enabled, msg, type) ==
  LET full_msg == FullMsg(name, msg)
      line(sink) == [sink |-> sink, msg |-> full_msg]
      plain(sink) == [Unchanged("none", h0, r0) EXCEPT !.logs = <<line(sink)>>]
      health(h, sink) ==
        LET s == set_health(name, h0, r0, enabled, Enum("NodeHealth", h), PyStr(full_msg))
        IN  [s EXCEPT !.logs = Append(@, line(sink))]
  IN  CASE type = "debug" -> plain("logdebug")
        [] type = "info" -> plain("loginfo")
        [] type \in {"warn", "warning"} -> health("WARNING", "logwarn")
        [] type \in {"err", "error"} -> health("ERROR", "logerr")
        [] type = "fatal" -> health("FATAL", "logfatal")
        [] OTHER -> Unchanged("ValueError", h0, r0)

(***************************************************************************)
(* DTROS.__init__                                                          *)
(***************************************************************************)
\* The singleton guard left out.
SingletonTaken_unchecked(slot) == FALSE

\* if rospy.__instance__ is not None: raise RuntimeError
SingletonTaken(slot) == slot # NoneVal

\* register_node(self.node_name, health=self._health), if the manager is enabled
RegisterNote(enabled, name, health) ==
  IF enabled
  THEN <<[call |-> "register_node", name |-> name, health |-> health]>>
  ELSE <<>>

\* The node registered with the diagnostics manager after set_health(STARTING).
init_register_last(slot, enabled, name, node_type) ==
  IF SingletonTaken(slot)
  THEN [exc |-> "RuntimeError", slot |-> slot, built |-> FALSE, logs |-> <<>>, notes |-> <<>>]
  ELSE IF ~isinstance(node_type, "ModuleType")
  THEN [exc |-> "ValueError", slot |-> PyStr("self"), built |-> FALSE,
        logs |-> <<>>, notes |-> <<>>]
  ELSE LET resolved == get_name(name)
           hello == log(resolved, NoneVal, NoneVal, enabled, "Initializing...", "info")
           unknown == Enum("NodeHealth", "UNKNOWN")
           starting == set_health(resolved, unknown, NoneVal, enabled,
                                  Enum("NodeHealth", "STARTING"), NoneVal)
       IN  [exc |-> starting.exc, slot |-> PyStr("self"), built |-> TRUE,
            node_name |-> resolved,
            is_shutdown |-> FALSE,
            _health |-> starting._health,
            _health_reason |-> starting._health_reason,
            _parameters |-> <<>>,
            _switch |-> TRUE,
            _subscribers |-> <<>>,
            _publishers |-> <<>>,
            logs |-> hello.logs \o starting.logs,
            notes |-> starting.notes \o RegisterNote(enabled, resolved, starting._health)]

\* The node type validated before the singleton slot is claimed.
init_validate_first(slot, enabled, name, node_type) ==
  IF SingletonTaken(slot)
  THEN [exc |-> "RuntimeError", slot |-> slot, built |-> FALSE, logs |-> <<>>, notes |-> <<>>]
  ELSE IF ~isinstance(node_type, "ModuleType")
  THEN [exc |-> "ValueError", slot |-> slot, built |-> FALSE,
        logs |-> <<>>, notes |-> <<>>]
  ELSE LET resolved == get_name(name)
           hello == log(resolved, NoneVal, NoneVal, enabled, "Initializing...", "info")
           unknown == Enum("NodeHealth", "UNKNOWN")
           starting == set_health(resolved, unknown, NoneVal, enabled,
                                  Enum("NodeHealth", "STARTING"), NoneVal)
       IN  [exc |-> starting.exc, slot |-> PyStr("self"), built |-> TRUE,
            node_name |-> resolved,
            is_shutdown |-> FALSE,
            _health |-> starting._health,
            _health_reason |-> starting._health_reason,
            _parameters |-> <<>>,
            _switch |-> TRUE,
            _subscribers |-> <<>>,
            _publishers |-> <<>>,
            logs |-> hello.logs \o starting.logs,
            notes |-> RegisterNote(enabled, resolved, unknown) \o starting.notes]

\* What __init__ does: the exception it raises, the singleton slot it leaves, the
\* fields of the new object (when it gets that far), its log lines and notifications.
init(slot, enabled, name, node_type) ==
  IF SingletonTaken(slot)
  THEN [exc |-> "RuntimeError", slot |-> slot, built |-> FALSE, logs |-> <<>>, notes |-> <<>>]
  ELSE IF ~isinstance(node_type, "ModuleType")
  THEN [exc |-> "ValueError", slot |-> PyStr("self"), built |-> FALSE,
        logs |-> <<>>, notes |-> <<>>]
  ELSE LET resolved == get_name(name)
           hello == log(resolved, NoneVal, NoneVal, enabled, "Initializing...", "info")
           unknown == Enum("NodeHealth", "UNKNOWN")
           starting == set_health(resolved, unknown, NoneVal, enabled,
                                  Enum("NodeHealth", "STARTING"), NoneVal)
       IN  [exc |-> starting.exc, slot |-> PyStr("self"), built |-> TRUE,
            node_name |-> resolved,
            is_shutdown |-> FALSE,
            _health |-> starting._health,
            _health_reason |-> starting._health_reason,
            _parameters |-> <<>>,
            _switch |-> TRUE,
            _subscribers |-> <<>>,
            _publishers |-> <<>>,
            logs |-> hello.logs \o starting.logs,
            notes |-> RegisterNote(enabled, resolved, unknown) \o starting.notes]

DTROS__init__(name, node_type) ==
  LET r == init(__instance__, diagEnabled, name, node_type)
  IN  /\ __instance__' = r.slot
      /\ IF r.built
         THEN /\ initialized' = TRUE
              /\ node_name' = r.node_name
              /\ is_shutdown' = r.is_shutdown
              /\ _health' = r._health
              /\ _health_reason' = r._health_reason
              /\ _parameters' = r._parameters
              /\ _switch' = r._switch
              /\ _subscribers' = r._subscribers
              /\ _publishers' = r._publishers
         ELSE UNCHANGED <<initialized, node_name, is_shutdown, _health, _health_reason,
                          _parameters, _switch, _subscribers, _publishers>>
      /\ last' = Call("__init__", <<name, node_type>>, r.exc, NoneVal, r.logs, r.notes,
                      NoneVal)
      /\ UNCHANGED <<kind, active, diagEnabled, sw, pb>>

(***************************************************************************)
(* Calls of application code on the constructed node.                      *)
(***************************************************************************)
SetHealth(health, reason) ==
  /\ initialized
  /\ LET r == set_health(node_name, _health, _health_reason, diagEnabled, health, reason)
     IN  /\ _health' = r._health
         /\ _health_reason' = r._health_reason
         /\ last' = Call("set_health", <<health, reason>>, r.exc, NoneVal, r.logs, r.notes,
                         [_health |-> _health, _health_reason |-> _health_reason])
  /\ UNCHANGED <<__instance__, initialized, node_name, is_shutdown, _parameters, _switch,
                 _subscribers, _publishers, kind, active, diagEnabled, sw, pb>>

Log(msg, type) ==
  /\ initialized
  /\ LET r == log(node_name, _health, _health_reason, diagEnabled, msg, type)
     IN  /\ _health' = r._health
         /\ _health_reason' = r._health_reason
         /\ last' = Call("log", <<msg, type>>, r.exc, NoneVal, r.logs, r.notes,
                         [_health |-> _health, _health_reason |-> _health_reason])
  /\ UNCHANGED <<__instance__, initialized, node_name, is_shutdown, _parameters, _switch,
                 _subscribers, _publishers, kind, active, diagEnabled, sw, pb>>

\* The hook switching the node and its channels off.
onShutdown_deactivates ==
  /\ initialized
  /\ ~is_shutdown
  /\ LET r == log(node_name, _health, _health_reason, diagEnabled, "Shutdown.", "info")
     IN  /\ is_shutdown' = TRUE
         /\ _health' = r._health
         /\ _health_reason' = r._health_reason
         /\ last' = Call("onShutdown", <<>>, r.exc, NoneVal, r.logs, r.notes, NoneVal)
  /\ _switch' = FALSE
  /\ active' = [c \in DOMAIN active |-> FALSE]
  /\ UNCHANGED <<__instance__, initialized, node_name, _parameters,
                 _subscribers, _publishers, kind, diagEnabled, sw, pb>>

\* def onShutdown(self), which rospy runs once
onShutdown ==
  /\ initialized
  /\ ~is_shutdown
  /\ LET r == log(node_name, _health, _health_reason, diagEnabled, "Shutdown.", "info")
     IN  /\ is_shutdown' = TRUE
         /\ _health' = r._health
         /\ _health_reason' = r._health_reason
         /\ last' = Call("onShutdown", <<>>, r.exc, NoneVal, r.logs, r.notes, NoneVal)
  /\ UNCHANGED <<__instance__, initialized, node_name, _parameters, _switch,
                 _subscribers, _publishers, kind, active, diagEnabled, sw, pb>>

(***************************************************************************)
(* The ~switch service.                                                    *)
(***************************************************************************)
\* The loop over the subscribers left out.
Propagate_publishers_only(act, pubs, subs, value) ==
  [c \in DOMAIN act |-> IF c \in Range(pubs) THEN value ELSE act[c]]

\* for pub in self.publishers: pub.active = self._switch
\* for sub in self.subscribers: sub.active = self._switch
Propagate(act, pubs, subs, value) ==
  [c \in DOMAIN act |-> IF c \in Range(pubs) \cup Range(subs) THEN value ELSE act[c]]

\* 'Node switched from [%s] to [%s]'
SwitchMsg(old_state, new_state) ==
  "Node switched from [" \o (IF old_state THEN "on" ELSE "off") \o "] to ["
    \o (IF new_state THEN "on" ELSE "off") \o "]"

\* The enabled() test left out.
SwitchNote_always(enabled, value) == <<[call |-> "update_node", enabled |-> value]>>

\* update_node(enabled=self._switch), if the diagnostics manager is enabled
SwitchNote(enabled, value) ==
  IF enabled THEN <<[call |-> "update_node", enabled |-> value]>> ELSE <<>>

\* The switch logged at 'warn'.
srv_switch_warns(name, h0, r0, switch0, act, pubs, subs, enabled, data) ==
  LET old_state == switch0
      new_state == data
      msg == SwitchMsg(old_state, new_state)
      lg == log(name, h0, r0, enabled, msg, "warn")
  IN  [exc |-> lg.exc,
       _switch |-> new_state,
       active |-> Propagate(act, pubs, subs, new_state),
       _health |-> lg._health,
       _health_reason |-> lg._health_reason,
       ret |-> [success |-> TRUE, message |-> msg],
       logs |-> lg.logs,
       notes |-> SwitchNote(enabled, new_state) \o lg.notes]

srv_switch(name, h0, r0, switch0, act, pubs, subs, enabled, data) ==
  LET old_state == switch0
      new_state == data
      msg == SwitchMsg(old_state, new_state)
      lg == log(name, h0, r0, enabled, msg, "info")
  IN  [exc |-> lg.exc,
       _switch |-> new_state,
       active |-> Propagate(act, pubs, subs, new_state),
       _health |-> lg._health,
       _health_reason |-> lg._health_reason,
       ret |-> [success |-> TRUE, message |-> msg],
       logs |-> lg.logs,
       notes |-> SwitchNote(enabled, new_state) \o lg.notes]

_srv_switch(data) ==
  /\ initialized
  /\ LET r == srv_switch(node_name, _health, _health_reason, _switch, active,
                         _publishers, _subscribers, diagEnabled, data)
     IN  /\ _switch' = r._switch
         /\ active' = r.active
         /\ _health' = r._health
         /\ _health_reason' = r._health_reason
         /\ last' = Call("switch", <<data>>, r.exc, r.ret, r.logs, r.notes,
                         [_switch |-> _switch, active |-> active])
  /\ UNCHANGED <<__instance__, initialized, node_name, is_shutdown, _parameters,
                 _subscribers, _publishers, kind, diagEnabled, sw, pb>>

(***************************************************************************)
(* Parameters.                                                             *)
(***************************************************************************)
\* self._parameters[param] = DTParam
add_param(params, param) ==
  IF ~isinstance(param, "DTParam")
  THEN [exc |-> "ValueError", _parameters |-> params]
  ELSE [exc |-> "none", _parameters |-> DictSet(params, param, DTParamClass)]

_add_param(param) ==
  /\ initialized
  /\ LET r == add_param(_parameters, param)
     IN  /\ _parameters' = r._parameters
         /\ last' = Call("_add_param", <<param>>, r.exc, NoneVal, <<>>, <<>>, NoneVal)
  /\ UNCHANGED <<__instance__, initialized, node_name, is_shutdown, _health, _health_reason,
                 _switch, _subscribers, _publishers, kind, active, diagEnabled, sw, pb>>

\* NodeParameter(node=rospy.get_name(), name=p.name, type=p.type.value, **p.options()):
\* a DTParam instance has these attributes, the class object DTParam does not.
Descriptor(name, p) ==
  IF isinstance(p, "DTParam")
  THEN [exc |-> "none", item |-> [node |-> name, name |-> p.name]]
  ELSE [exc |-> "AttributeError"]

\* [NodeParameter(...) for p in self.parameters]
get_params_list(name, params) ==
  LET values == DictValues(params)
      items == [i \in 1..Len(values) |-> Descriptor(name, values[i])]
  IN  IF \E i \in 1..Len(items) : items[i].exc # "none"
      THEN [exc |-> "AttributeError", ret |-> <<>>]
      ELSE [exc |-> "none", ret |-> [i \in 1..Len(items) |-> items[i].item]]

_srv_get_params_list ==
  /\ initialized
  /\ LET r == get_params_list(node_name, _parameters)
     IN  last' = Call("get_params_list", <<>>, r.exc, r.ret, <<>>, <<>>, NoneVal)
  /\ UNCHANGED <<node, kind, active, diagEnabled, sw, pb>>

\* p.force_update(): what the call raises ("none" when it returns).  On an instance
\* that is what the parameter server makes it raise; the class object has no
\* instance to update.
ForceUpdateOutcomes == {"none", "KeyError", "ROSException", "OSError"}
force_update(p, store) == IF isinstance(p, "DTParam") THEN store ELSE "TypeError"

\* KeyError left out of the except clause.
Caught_only_ros(exc) == exc = "ROSException"

\* except (KeyError, rospy.exceptions.ROSException)
Caught(exc) == exc \in {"KeyError", "ROSException"}

\* forced: the values force_update was called on.
request_param_update(params, parameter, store) ==
  LET key == PyStr(parameter)
      found == DictHas(params, key)
      forced == IF found THEN <<DictGet(params, key)>> ELSE <<>>
      raised == IF found THEN force_update(DictGet(params, key), store) ELSE "KeyError"
  IN  IF raised = "none"
      THEN [exc |-> "none", ret |-> [success |-> TRUE], forced |-> forced]
      ELSE IF Caught(raised)
      THEN [exc |-> "none", ret |-> [success |-> FALSE], forced |-> forced]
      ELSE [exc |-> raised, ret |-> NoneVal, forced |-> forced]

_srv_request_param_update(parameter, store) ==
  /\ initialized
  /\ LET r == request_param_update(_parameters, parameter, store)
     IN  last' = Call("request_param_update", <<parameter, store>>, r.exc, r.ret, <<>>, <<>>,
                      r.forced)
  /\ UNCHANGED <<node, kind, active, diagEnabled, sw, pb>>

(***************************************************************************)
(* Channels.                                                               *)
(***************************************************************************)
\* A new publisher's flag taken from the node's switch.
DTPublisher__init__follows_switch ==
  /\ Len(kind) < MaxChannels
  /\ kind' = Append(kind, "pub")
  /\ active' = Append(active, _switch)
  /\ last' = Call("DTPublisher", <<Len(kind) + 1>>, "none", NoneVal, <<>>, <<>>, NoneVal)
  /\ UNCHANGED <<node, diagEnabled, sw, pb>>

\* DTPublisher.__init__: self.active = True
DTPublisher__init__ ==
  /\ Len(kind) < MaxChannels
  /\ kind' = Append(kind, "pub")
  /\ active' = Append(active, TRUE)
  /\ last' = Call("DTPublisher", <<Len(kind) + 1>>, "none", NoneVal, <<>>, <<>>, NoneVal)
  /\ UNCHANGED <<node, diagEnabled, sw, pb>>

\* The inbound channel: a subscriber with the same active flag.
DTSubscriber__init__ ==
  /\ Len(kind) < MaxChannels
  /\ kind' = Append(kind, "sub")
  /\ active' = Append(active, TRUE)
  /\ last' = Call("DTSubscriber", <<Len(kind) + 1>>, "none", NoneVal, <<>>, <<>>, NoneVal)
  /\ UNCHANGED <<node, diagEnabled, sw, pb>>

\* The list replaced by one that holds the new publisher only.
_register_publisher_replaces(c) ==
  /\ initialized
  /\ kind[c] = "pub"
  /\ c \notin Range(_publishers)
  /\ _publishers' = <<c>>
  /\ last' = Call("_register_publisher", <<c>>, "none", NoneVal, <<>>, <<>>, NoneVal)
  /\ UNCHANGED <<__instance__, initialized, node_name, is_shutdown, _health, _health_reason,
                 _parameters, _switch, _subscribers, kind, active, diagEnabled, sw, pb>>

\* self._publishers.append(publisher)
_register_publisher(c) ==
  /\ initialized
  /\ kind[c] = "pub"
  /\ c \notin Range(_publishers)
  /\ _publishers' = Append(_publishers, c)
  /\ last' = Call("_register_publisher", <<c>>, "none", NoneVal, <<>>, <<>>, NoneVal)
  /\ UNCHANGED <<__instance__, initialized, node_name, is_shutdown, _health, _health_reason,
                 _parameters, _switch, _subscribers, kind, active, diagEnabled, sw, pb>>

\* self._subscribers.append(subscriber)
_register_subscriber(c) ==
  /\ initialized
  /\ kind[c] = "sub"
  /\ c \notin Range(_subscribers)
  /\ _subscribers' = Append(_subscribers, c)
  /\ last' = Call("_register_subscriber", <<c>>, "none", NoneVal, <<>>, <<>>, NoneVal)
  /\ UNCHANGED <<__instance__, initialized, node_name, is_shutdown, _health, _health_reason,
                 _parameters, _switch, _publishers, kind, active, diagEnabled, sw, pb>>

\* channel.active = value, assigned by application code
SetActive(c, value) ==
  /\ active' = [active EXCEPT ![c] = value]
  /\ last' = Call("set_active", <<c, value>>, "none", NoneVal, <<>>, <<>>, NoneVal)
  /\ UNCHANGED <<node, kind, diagEnabled, sw, pb>>

\* if self.active: super(DTPublisher, self).publish(*args, **kwargs)
\* The payloads the underlying rospy publisher is handed.
Forward(flag, payload) == IF flag THEN <<payload>> ELSE <<>>

\* publish, run without interruption; seen is the flag when the payload is handed on.
publish(c, payload) ==
  /\ kind[c] = "pub"
  /\ last' = Call("publish", <<c, payload>>, "none", Forward(active[c], payload), <<>>, <<>>,
                  active[c])
  /\ UNCHANGED <<node, kind, active, diagEnabled, sw, pb>>

(***************************************************************************)
(* The process, one call at a time.                                        *)
(***************************************************************************)
Idle == [pc |-> "idle"]

Init ==
  /\ __instance__ = NoneVal
  /\ initialized = FALSE
  /\ node_name = ""
  /\ is_shutdown = FALSE
  /\ _health = NoneVal
  /\ _health_reason = NoneVal
  /\ _parameters = <<>>
  /\ _switch = FALSE
  /\ _subscribers = <<>>
  /\ _publishers = <<>>
  /\ kind = <<>>
  /\ active = <<>>
  /\ diagEnabled \in BOOLEAN
  /\ last = Call("start", <<>>, "none", NoneVal, <<>>, <<>>, NoneVal)
  /\ sw = <<>>
  /\ pb = Idle

\* The parameters and their services, on a node whose switch, health and publishers
\* change.
Next ==
  \/ \E node_type \in NodeTypeArgs : DTROS__init__("a", node_type)
  \/ \E data \in BOOLEAN : _srv_switch(data)
  \/ \E msg \in Msgs : Log(msg, "err")
  \/ \E param \in ParamArgs : _add_param(param)
  \/ _srv_get_params_list
  \/ \E parameter \in ParamRequests, store \in ForceUpdateOutcomes :
       _srv_request_param_update(parameter, store)
  \/ DTPublisher__init__
  \/ \E c \in DOMAIN kind : _register_publisher(c)

Spec == Init /\ [][Next]_vars

\* The singleton: constructions, on a node whose switch, health, publishers and
\* parameters change.
NextSingleton ==
  \/ \E name \in NodeNames, node_type \in NodeTypeArgs : DTROS__init__(name, node_type)
  \/ \E data \in BOOLEAN : _srv_switch(data)
  \/ \E msg \in Msgs : Log(msg, "err")
  \/ \E param \in DTParams : _add_param(param)
  \/ DTPublisher__init__
  \/ \E c \in DOMAIN kind : _register_publisher(c)

SpecSingleton == Init /\ [][NextSingleton]_vars

\* The ~switch service and the channels.
NextChannels ==
  \/ \E node_type \in NodeTypeArgs : DTROS__init__("a", node_type)
  \/ \E data \in BOOLEAN : _srv_switch(data)
  \/ DTPublisher__init__
  \/ DTSubscriber__init__
  \/ \E c \in DOMAIN kind : _register_publisher(c)
  \/ \E c \in DOMAIN kind : _register_subscriber(c)
  \/ \E c \in DOMAIN kind, value \in BOOLEAN : SetActive(c, value)
  \/ \E c \in DOMAIN kind, payload \in Payloads : publish(c, payload)

SpecChannels == Init /\ [][NextChannels]_vars

\* set_health, log and the shutdown hook.
NextHealth ==
  \/ \E name \in NodeNames, node_type \in NodeTypeArgs : DTROS__init__(name, node_type)
  \/ \E health \in HealthArgs, reason \in ReasonArgs : SetHealth(health, reason)
  \/ \E msg \in Msgs, type \in LogTypes : Log(msg, type)
  \/ onShutdown

SpecHealth == Init /\ [][NextHealth]_vars

\* The calls that report to the diagnostics manager.
NextDiag ==
  \/ \E node_type \in NodeTypeArgs : DTROS__init__("a", node_type)
  \/ \E health \in {Enum("NodeHealth", "HEALTHY"), NoneVal}, reason \in {NoneVal, PyStr("r")} :
       SetHealth(health, reason)
  \/ \E data \in BOOLEAN : _srv_switch(data)
  \/ DTPublisher__init__
  \/ DTSubscriber__init__
  \/ \E c \in DOMAIN kind : _register_publisher(c)
  \/ \E c \in DOMAIN kind : _register_subscriber(c)

SpecDiag == Init /\ [][NextDiag]_vars

\* Every call of the node and of its publishers, one at a time, with few inputs.
NextNode ==
  \/ \E node_type \in NodeTypeArgs : DTROS__init__("a", node_type)
  \/ SetHealth(Enum("NodeHealth", "HEALTHY"), NoneVal)
  \/ \E type \in {"debug", "info", "fatal"} : Log("m", type)
  \/ onShutdown
  \/ \E data \in BOOLEAN : _srv_switch(data)
  \/ _add_param(DTParam(1))
  \/ _srv_get_params_list
  \/ \E parameter \in ParamRequests : _srv_request_param_update(parameter, "none")
  \/ DTPublisher__init__
  \/ \E c \in DOMAIN kind : _register_publisher(c)
  \/ \E c \in DOMAIN kind : publish(c, "x")

SpecNode == Init /\ [][NextNode]_vars

(***************************************************************************)
(* Calls whose statements interleave.  rospy runs every service call and   *)
(* every subscriber callback in a thread of its own and the node takes no  *)
(* lock, so between two attribute reads or writes of one call another      *)
(* thread may run.                                                         *)
(***************************************************************************)
\* A node that has been constructed and has registered its channels, a publisher
\* and a subscriber in turn, and has been switched to either value.
InitRunning ==
  /\ __instance__ = PyStr("self")
  /\ initialized = TRUE
  /\ node_name = get_name("a")
  /\ is_shutdown = FALSE
  /\ _health = Enum("NodeHealth", "STARTING")
  /\ _health_reason = NoneVal
  /\ _parameters = <<>>
  /\ _switch \in BOOLEAN
  /\ kind = [c \in 1..MaxChannels |-> IF c % 2 = 1 THEN "pub" ELSE "sub"]
  /\ _publishers = SelectSeq([c \in 1..MaxChannels |-> c], LAMBDA c : c % 2 = 1)
  /\ _subscribers = SelectSeq([c \in 1..MaxChannels |-> c], LAMBDA c : c % 2 = 0)
  /\ active = [c \in 1..MaxChannels |-> _switch]
  /\ diagEnabled \in BOOLEAN
  /\ last = Call("start", <<>>, "none", NoneVal, <<>>, <<>>, NoneVal)

\* Thread 1 has been handed a request to switch on, thread 2 a request to switch off.
InitSwitchRace ==
  /\ InitRunning
  /\ sw = [t \in Threads |-> [pc |-> "225", data |-> (t = 1), old_state |-> FALSE,
                              i |-> 0, value |-> FALSE]]
  /\ pb = Idle

\* old_state = self._switch
SwitchReadOld(t) ==
  /\ sw[t].pc = "225"
  /\ sw' = [sw EXCEPT ![t].pc = "226", ![t].old_state = _switch]
  /\ UNCHANGED <<node, kind, active, diagEnabled, last, pb>>

\* self._switch = new_state = request.data
SwitchWrite(t) ==
  /\ sw[t].pc = "226"
  /\ _switch' = sw[t].data
  /\ sw' = [sw EXCEPT ![t].pc = "228", ![t].i = 0]
  /\ UNCHANGED <<__instance__, initialized, node_name, is_shutdown, _health, _health_reason,
                 _parameters, _subscribers, _publishers, kind, active, diagEnabled, last, pb>>

\* for pub in self.publishers: ... = self._switch    (the next element, and the read)
SwitchLoadPub(t) ==
  /\ sw[t].pc = "228"
  /\ IF sw[t].i < Len(_publishers)
     THEN sw' = [sw EXCEPT ![t].pc = "229", ![t].i = @ + 1, ![t].value = _switch]
     ELSE sw' = [sw EXCEPT ![t].pc = "230", ![t].i = 0]
  /\ UNCHANGED <<node, kind, active, diagEnabled, last, pb>>

\* pub.active = ...                                  (the write)
SwitchStorePub(t) ==
  /\ sw[t].pc = "229"
  /\ active' = [active EXCEPT ![_publishers[sw[t].i]] = sw[t].value]
  /\ sw' = [sw EXCEPT ![t].pc = "228"]
  /\ UNCHANGED <<node, kind, diagEnabled, last, pb>>

\* for sub in self.subscribers: ... = self._switch
SwitchLoadSub(t) ==
  /\ sw[t].pc = "230"
  /\ IF sw[t].i < Len(_subscribers)
     THEN sw' = [sw EXCEPT ![t].pc = "231", ![t].i = @ + 1, ![t].value = _switch]
     ELSE sw' = [sw EXCEPT ![t].pc = "233", ![t].i = 0]
  /\ UNCHANGED <<node, kind, active, diagEnabled, last, pb>>

\* sub.active = ...
SwitchStoreSub(t) ==
  /\ sw[t].pc = "231"
  /\ active' = [active EXCEPT ![_subscribers[sw[t].i]] = sw[t].value]
  /\ sw' = [sw EXCEPT ![t].pc = "230"]
  /\ UNCHANGED <<node, kind, diagEnabled, last, pb>>

\* update_node(enabled=self._switch), the log line and the response
SwitchReturn(t) ==
  /\ sw[t].pc = "233"
  /\ LET msg == SwitchMsg(sw[t].old_state, sw[t].data)
         lg == log(node_name, _health, _health_reason, diagEnabled, msg, "info")
     IN  /\ _health' = lg._health
         /\ _health_reason' = lg._health_reason
         /\ last' = Call("switch", <<sw[t].data>>, lg.exc,
                         [success |-> TRUE, message |-> msg], lg.logs,
                         SwitchNote(diagEnabled, _switch) \o lg.notes, NoneVal)
  /\ sw' = [sw EXCEPT ![t].pc = "done"]
  /\ UNCHANGED <<__instance__, initialized, node_name, is_shutdown, _parameters, _switch,
                 _subscribers, _publishers, kind, active, diagEnabled, pb>>

NextSwitchRace ==
  \/ \E t \in Threads : SwitchReadOld(t)
  \/ \E t \in Threads : SwitchWrite(t)
  \/ \E t \in Threads : SwitchLoadPub(t)
  \/ \E t \in Threads : SwitchStorePub(t)
  \/ \E t \in Threads : SwitchLoadSub(t)
  \/ \E t \in Threads : SwitchStoreSub(t)
  \/ \E t \in Threads : SwitchReturn(t)

SpecSwitchRace == InitSwitchRace /\ [][NextSwitchRace]_vars

\* ~switch calls made one after the other, in steps, while application code creates
\* and registers channels between the steps.  list.append is one step: the
\* interpreter does not switch threads within it.
InitRegisterRace ==
  /\ __instance__ = PyStr("self")
  /\ initialized = TRUE
  /\ node_name = get_name("a")
  /\ is_shutdown = FALSE
  /\ _health = Enum("NodeHealth", "STARTING")
  /\ _health_reason = NoneVal
  /\ _parameters = <<>>
  /\ _switch \in BOOLEAN
  /\ kind = <<>>
  /\ _publishers = <<>>
  /\ _subscribers = <<>>
  /\ active = <<>>
  /\ diagEnabled \in BOOLEAN
  /\ last = Call("start", <<>>, "none", NoneVal, <<>>, <<>>, NoneVal)
  /\ sw = <<[pc |-> "idle", data |-> FALSE, old_state |-> FALSE, i |-> 0, value |-> FALSE,
             before |-> {}]>>
  /\ pb = Idle

\* rospy hands the next ~switch request to the handler; before is the set of
\* channels registered by then.
SwitchCall(t, data) ==
  /\ sw[t].pc \in {"idle", "done"}
  /\ sw' = [sw EXCEPT ![t] = [pc |-> "225", data |-> data, old_state |-> FALSE, i |-> 0,
                              value |-> FALSE,
                              before |-> Range(_publishers) \cup Range(_subscribers)]]
  /\ UNCHANGED <<node, kind, active, diagEnabled, last, pb>>

NextRegisterRace ==
  \/ \E t \in DOMAIN sw, data \in BOOLEAN : SwitchCall(t, data)
  \/ \E t \in DOMAIN sw : SwitchReadOld(t)
  \/ \E t \in DOMAIN sw : SwitchWrite(t)
  \/ \E t \in DOMAIN sw : SwitchLoadPub(t)
  \/ \E t \in DOMAIN sw : SwitchStorePub(t)
  \/ \E t \in DOMAIN sw : SwitchLoadSub(t)
  \/ \E t \in DOMAIN sw : SwitchStoreSub(t)
  \/ \E t \in DOMAIN sw : SwitchReturn(t)
  \/ DTPublisher__init__
  \/ DTSubscriber__init__
  \/ \E c \in DOMAIN kind : _register_publisher(c)
  \/ \E c \in DOMAIN kind : _register_subscriber(c)

SpecRegisterRace == InitRegisterRace /\ [][NextRegisterRace]_vars

\* Two set_health calls in steps, made by two threads (the application's and a
\* callback's): thread 1 reports HEALTHY or WARNING, with or without a reason, thread
\* 2 reports ERROR with a reason.
InitHealthRace ==
  /\ InitRunning
  /\ \E health \in {Enum("NodeHealth", "HEALTHY"), Enum("NodeHealth", "WARNING")},
        reason \in {NoneVal, PyStr("w")} :
       sw = [t \in Threads |->
               [pc |-> "171",
                health |-> IF t = 1 THEN health ELSE Enum("NodeHealth", "ERROR"),
                reason |-> IF t = 1 THEN reason ELSE PyStr("e"),
                logs |-> <<>>,
                sent |-> NoneVal]]
  /\ pb = Idle

\* self.log('Health status changed [%s] -> [%s]' % (self._health.name, health.name))
SetHealthLog(t) ==
  /\ sw[t].pc = "171"
  /\ LET lg == log(node_name, _health, _health_reason, diagEnabled,
                   "Health status changed [" \o _health.name \o "] -> ["
                     \o sw[t].health.name \o "]", "info")
     IN  sw' = [sw EXCEPT ![t].pc = "172", ![t].logs = lg.logs]
  /\ UNCHANGED <<node, kind, active, diagEnabled, last, pb>>

\* self._health = health
SetHealthWrite(t) ==
  /\ sw[t].pc = "172"
  /\ _health' = sw[t].health
  /\ sw' = [sw EXCEPT ![t].pc = "173"]
  /\ UNCHANGED <<__instance__, initialized, node_name, is_shutdown, _health_reason,
                 _parameters, _switch, _subscribers, _publishers, kind, active, diagEnabled,
                 last, pb>>

\* self._health_reason = None if reason is None else str(reason)
SetHealthReason(t) ==
  /\ sw[t].pc = "173"
  /\ _health_reason' = (IF sw[t].reason = NoneVal THEN NoneVal ELSE PyStr(str(sw[t].reason)))
  /\ sw' = [sw EXCEPT ![t].pc = "175"]
  /\ UNCHANGED <<__instance__, initialized, node_name, is_shutdown, _health,
                 _parameters, _switch, _subscribers, _publishers, kind, active, diagEnabled,
                 last, pb>>

\* if DTROSDiagnostics.enabled(): ... health=self._health    (the read of the field)
SetHealthLoad(t) ==
  /\ sw[t].pc = "175"
  /\ IF diagEnabled
     THEN /\ sw' = [sw EXCEPT ![t].pc = "178", ![t].sent = _health]
          /\ UNCHANGED last
     ELSE /\ sw' = [sw EXCEPT ![t].pc = "done"]
          /\ last' = Call("set_health", <<sw[t].health, sw[t].reason>>, "none", NoneVal,
                          sw[t].logs, <<>>, NoneVal)
  /\ UNCHANGED <<node, kind, active, diagEnabled, pb>>

\* update_node(health=..., health_reason=self._health_reason)
SetHealthNotify(t) ==
  /\ sw[t].pc = "178"
  /\ sw' = [sw EXCEPT ![t].pc = "done"]
  /\ last' = Call("set_health", <<sw[t].health, sw[t].reason>>, "none", NoneVal,
                  sw[t].logs, HealthNote(TRUE, sw[t].sent, _health_reason), NoneVal)
  /\ UNCHANGED <<node, kind, active, diagEnabled, pb>>

NextHealthRace ==
  \/ \E t \in Threads : SetHealthLog(t)
  \/ \E t \in Threads : SetHealthWrite(t)
  \/ \E t \in Threads : SetHealthReason(t)
  \/ \E t \in Threads : SetHealthLoad(t)
  \/ \E t \in Threads : SetHealthNotify(t)

SpecHealthRace == InitHealthRace /\ [][NextHealthRace]_vars

\* A publish in steps: the call, the test of self.active, the call of the
\* underlying publish.  The switch service and the assignments of active run between
\* them.
InitPublishRace ==
  /\ InitRunning
  /\ sw = <<>>
  /\ pb = Idle

PublishCall(c, payload) ==
  /\ pb = Idle
  /\ kind[c] = "pub"
  /\ pb' = [pc |-> "64", c |-> c, payload |-> payload]
  /\ UNCHANGED <<node, kind, active, diagEnabled, last, sw>>

\* if self.active:
PublishTest ==
  /\ pb.pc = "64"
  /\ IF active[pb.c]
     THEN /\ pb' = [pb EXCEPT !.pc = "66"]
          /\ UNCHANGED last
     ELSE /\ pb' = Idle
          /\ last' = Call("publish", <<pb.c, pb.payload>>, "none", Forward(FALSE, pb.payload),
                          <<>>, <<>>, active[pb.c])
  /\ UNCHANGED <<node, kind, active, diagEnabled, sw>>

\* super(DTPublisher, self).publish(*args, **kwargs)
PublishSend ==
  /\ pb.pc = "66"
  /\ pb' = Idle
  /\ last' = Call("publish", <<pb.c, pb.payload>>, "none", Forward(TRUE, pb.payload),
                  <<>>, <<>>, active[pb.c])
  /\ UNCHANGED <<node, kind, active, diagEnabled, sw>>

NextPublishRace ==
  \/ \E c \in DOMAIN kind, payload \in Payloads : PublishCall(c, payload)
  \/ PublishTest
  \/ PublishSend
  \/ \E data \in BOOLEAN : _srv_switch(data)
  \/ \E c \in DOMAIN kind, value \in BOOLEAN : SetActive(c, value)

SpecPublishRace == InitPublishRace /\ [][NextPublishRace]_vars

(***************************************************************************)
(* Properties.                                                             *)
(***************************************************************************)
Registered == Range(_publishers) \cup Range(_subscribers)

\* C1: when a ~switch call made on its own returns, the node's switch is the
\* requested value and so is the active flag of every registered publisher and
\* subscriber, whatever the flag was assigned before the call.
C1_SwitchPropagates ==
  last.op = "switch" =>
    /\ last.exc = "none"
    /\ _switch = last.arg[1]
    /\ \A c \in Registered : active[c] = last.arg[1]

\* A switch to the value the node already had, which overwrote a publisher's and a
\* subscriber's flag that had been assigned the other value.
C1_Witness ==
  /\ last.op = "switch"
  /\ last.seen._switch = last.arg[1]
  /\ \E p \in Range(_publishers), q \in Range(_subscribers) :
       /\ last.seen.active[p] # last.arg[1]
       /\ last.seen.active[q] # last.arg[1]

\* C4: once the singleton slot is taken, a construction raises RuntimeError and
\* changes nothing of the node that exists: name, switch, health, channels, parameters.
C4_SecondConstructionFails ==
  [][(__instance__ # NoneVal /\ last'.op = "__init__") =>
       /\ last'.exc = "RuntimeError"
       /\ UNCHANGED <<__instance__, initialized, node_name, is_shutdown, _health,
                      _health_reason, _parameters, _switch, _subscribers, _publishers,
                      kind, active>>]_vars

\* A construction under another name refused on a node that is switched off, in
\* ERROR, with a publisher and a parameter.
C4_Witness ==
  /\ last.op = "__init__"
  /\ last.exc = "RuntimeError"
  /\ last.arg[1] = "b"
  /\ last.arg[2] \in ModuleType
  /\ initialized
  /\ node_name = "/a"
  /\ ~_switch
  /\ _health = Enum("NodeHealth", "ERROR")
  /\ Len(_publishers) > 0
  /\ Len(_parameters) > 0

\* C5: log at warn/warning, err/error, fatal leaves health WARNING, ERROR, FATAL
\* and the reason "[name] msg"; log at debug or info leaves health and reason as
\* they were.
C5_LogSetsHealth ==
  last.op = "log" =>
    LET msg == last.arg[1]
        type == last.arg[2]
        formatted == PyStr("[" \o node_name \o "] " \o msg)
        is(h) == /\ last.exc = "none"
                 /\ _health = Enum("NodeHealth", h)
                 /\ _health_reason = formatted
    IN  /\ type \in {"warn", "warning"} => is("WARNING")
        /\ type \in {"err", "error"} => is("ERROR")
        /\ type = "fatal" => is("FATAL")
        /\ type \in {"debug", "info"} =>
             /\ last.exc = "none"
             /\ _health = last.seen._health
             /\ _health_reason = last.seen._health_reason

\* log at 'warning' on a node that was FATAL for another reason.
C5_Witness ==
  /\ last.op = "log"
  /\ last.arg[2] = "warning"
  /\ last.seen._health = Enum("NodeHealth", "FATAL")
  /\ last.seen._health_reason = PyStr("7")
  /\ _health = Enum("NodeHealth", "WARNING")

\* C6: set_health with a value that is no NodeHealth raises ValueError, leaves
\* health and reason as they were and tells the diagnostics manager nothing.
C6_InvalidHealthRejected ==
  (last.op = "set_health" /\ last.arg[1] \notin NodeHealth) =>
    /\ last.exc = "ValueError"
    /\ _health = last.seen._health
    /\ _health_reason = last.seen._health_reason
    /\ last.notes = <<>>
    /\ last.logs = <<>>

\* The string 'WARNING' with a reason, refused on a node in ERROR with a reason of
\* its own, diagnostics enabled.
C6_Witness ==
  /\ last.op = "set_health"
  /\ last.arg[1] = PyStr("WARNING")
  /\ last.arg[2] = PyStr("r")
  /\ diagEnabled
  /\ _health = Enum("NodeHealth", "ERROR")
  /\ _health_reason # NoneVal

\* The names of the parameters _add_param has registered.
RegisteredNames == {_parameters[i][1].name : i \in 1..Len(_parameters)}

\* C7: the parameter-update service answers false for a name that is not
\* registered, and for a registered name whose force_update succeeds it answers
\* true after calling force_update once, on that parameter.
C7_UpdateFindsRegistered ==
  last.op = "request_param_update" =>
    LET name == last.arg[1]
        store == last.arg[2]
    IN  /\ name \notin RegisteredNames =>
             (last.exc = "none" /\ last.ret = [success |-> FALSE])
        /\ (name \in RegisteredNames /\ store = "none") =>
             /\ last.exc = "none"
             /\ last.ret = [success |-> TRUE]
             /\ Len(last.seen) = 1
             /\ last.seen[1].py = "DTParam"
             /\ last.seen[1].name = name

C9_ListDescribesRegistered ==
  last.op = "get_params_list" =>
    /\ last.exc = "none"
    /\ Len(last.ret) = Len(_parameters)
    /\ \A i \in 1..Len(_parameters) :
         /\ last.ret[i].name = _parameters[i][1].name
         /\ last.ret[i].node = node_name

\* C10: with diagnostics disabled no call notifies the manager, and __init__,
\* the switch service and set_health leave the same fields, raise the same and
\* return the same as with diagnostics enabled; the switch service answers success.
Quiet(r) == [r EXCEPT !.notes = <<>>]

C10_DisabledDiagnosticsSameEffect ==
  /\ ~diagEnabled => last.notes = <<>>
  /\ last.op = "switch" => (last.ret.success /\ _switch = last.arg[1])
  /\ \A name \in NodeNames, node_type \in NodeTypeArgs :
       LET on == init(__instance__, TRUE, name, node_type)
           off == init(__instance__, FALSE, name, node_type)
       IN  off.notes = <<>> /\ off = Quiet(on)
  /\ initialized =>
       /\ \A data \in BOOLEAN :
            LET on == srv_switch(node_name, _health, _health_reason, _switch, active,
                                 _publishers, _subscribers, TRUE, data)
                off == srv_switch(node_name, _health, _health_reason, _switch, active,
                                  _publishers, _subscribers, FALSE, data)
            IN  off.notes = <<>> /\ off = Quiet(on) /\ off.ret.success
       /\ \A health \in HealthArgs, reason \in ReasonArgs :
            LET on == set_health(node_name, _health, _health_reason, TRUE, health, reason)
                off == set_health(node_name, _health, _health_reason, FALSE, health, reason)
            IN  off.notes = <<>> /\ off = Quiet(on)

\* A switch-off with diagnostics disabled, on a HEALTHY node with a registered
\* publisher and subscriber.
C10_Witness ==
  /\ ~diagEnabled
  /\ last.op = "switch"
  /\ last.arg[1] = FALSE
  /\ _health = Enum("NodeHealth", "HEALTHY")
  /\ Len(_publishers) > 0
  /\ Len(_subscribers) > 0
  /\ \A c \in Registered : ~active[c]

\* C2: when a switch-on call and a switch-off call have interleaved and both have
\* returned, every registered channel's active flag equals the node's switch.
C2_NoTornPropagation ==
  (\A t \in Threads : sw[t].pc = "done") =>
    \A c \in Registered : active[c] = _switch

\* C3: a publish hands a payload to the underlying publisher only if the
\* channel is active when it does so, hands over exactly the payload it was given
\* if it is, and raises nothing, whatever runs between its statements.
C3_InactiveNeverForwards ==
  last.op = "publish" =>
    /\ last.exc = "none"
    /\ last.ret = (IF last.seen THEN <<last.arg[2]>> ELSE <<>>)

\* C11: log with a severity that is none of debug, info, warn, warning, err, error,
\* fatal raises ValueError, hands no line to any rospy logger, tells the diagnostics
\* manager nothing and leaves health and reason as they were.
C11_UnknownSeverityRejected ==
  (last.op = "log"
     /\ last.arg[2] \notin {"debug", "info", "warn", "warning", "err", "error", "fatal"}) =>
    /\ last.exc = "ValueError"
    /\ last.logs = <<>>
    /\ last.notes = <<>>
    /\ _health = last.seen._health
    /\ _health_reason = last.seen._health_reason

\* log at 'trace' refused on a node in WARNING with a reason, diagnostics enabled.
C11_Witness ==
  /\ last.op = "log"
  /\ last.arg[2] = "trace"
  /\ last.exc = "ValueError"
  /\ diagEnabled
  /\ _health = Enum("NodeHealth", "WARNING")
  /\ _health_reason # NoneVal

\* C12: a construction that succeeds leaves health STARTING, no reason, the switch
\* on, is_shutdown false and no channel and no parameter; with diagnostics enabled it
\* calls register_node with health UNKNOWN and then update_node once, with health
\* STARTING, and with diagnostics disabled it calls neither.
C12_ConstructionEndState ==
  (last.op = "__init__" /\ last.exc = "none") =>
    /\ initialized
    /\ node_name = "/" \o last.arg[1]
    /\ _health = Enum("NodeHealth", "STARTING")
    /\ _health_reason = NoneVal
    /\ _switch
    /\ ~is_shutdown
    /\ _publishers = <<>>
    /\ _subscribers = <<>>
    /\ _parameters = <<>>
    /\ last.notes =
         IF diagEnabled
         THEN <<[call |-> "register_node", name |-> node_name,
                 health |-> Enum("NodeHealth", "UNKNOWN")],
                [call |-> "update_node", health |-> Enum("NodeHealth", "STARTING"),
                 health_reason |-> NoneVal]>>
         ELSE <<>>

\* The node 'b' constructed with diagnostics enabled.
C12_Witness ==
  /\ last.op = "__init__"
  /\ last.exc = "none"
  /\ last.arg[1] = "b"
  /\ diagEnabled
  /\ Len(last.notes) = 2

\* C19: a construction refused for its node type leaves the singleton slot taken
\* and no node built, and every construction after it, with a valid node type too,
\* raises RuntimeError and builds no node.
C19_SlotClaimedBeforeValidation ==
  [][last'.op = "__init__" =>
       /\ last'.exc = "ValueError" => (__instance__' # NoneVal /\ ~initialized')
       /\ (__instance__ # NoneVal /\ ~initialized) =>
            (last'.exc = "RuntimeError" /\ __instance__' # NoneVal /\ ~initialized')]_vars

\* A construction with a valid node type refused because an earlier one, refused for
\* its node type, holds the slot.
C19_Witness ==
  /\ last.op = "__init__"
  /\ last.arg[2] \in ModuleType
  /\ last.exc = "RuntimeError"
  /\ ~initialized
  /\ __instance__ # NoneVal

\* C16: every set_health call with a NodeHealth, one that repeats the current
\* health too, logs one line, the transition at info level, and with diagnostics
\* enabled calls update_node once; a log at warn, err or fatal logs that line and its
\* own and causes one update_node, so the transition line causes no health update.
C16_NoDeduplication ==
  LET transition(new) ==
        [sink |-> "loginfo",
         msg |-> "[" \o node_name \o "] Health status changed ["
                   \o last.seen._health.name \o "] -> [" \o new.name \o "]"]
      update == [call |-> "update_node", health |-> _health,
                 health_reason |-> _health_reason]
      notified == last.notes = (IF diagEnabled THEN <<update>> ELSE <<>>)
  IN  /\ (last.op = "set_health" /\ last.arg[1] \in NodeHealth) =>
           /\ last.exc = "none"
           /\ _health = last.arg[1]
           /\ last.logs = <<transition(last.arg[1])>>
           /\ notified
      /\ (last.op = "log" /\ last.arg[2] \in {"warn", "warning", "err", "error", "fatal"}) =>
           /\ last.exc = "none"
           /\ Len(last.logs) = 2
           /\ last.logs[1] = transition(_health)
           /\ last.logs[2].sink \in {"logwarn", "logerr", "logfatal"}
           /\ notified

\* set_health(HEALTHY) without a reason on a node that is HEALTHY without a reason,
\* diagnostics enabled.
C16_Witness ==
  /\ last.op = "set_health"
  /\ last.arg = <<Enum("NodeHealth", "HEALTHY"), NoneVal>>
  /\ last.seen = [_health |-> Enum("NodeHealth", "HEALTHY"), _health_reason |-> NoneVal]
  /\ diagEnabled
  /\ Len(last.logs) = 1
  /\ Len(last.notes) = 1

\* C17: the reason is that of the latest health update: a set_health that returns
\* leaves the reason it was given, as a string, and none when it was given none; a
\* log at warn, err or fatal leaves its formatted line; a construction leaves none;
\* every other call, and a set_health or log that raises, leaves the reason alone.
C17_ReasonOfLatestUpdate ==
  [][CASE last'.op = "set_health" /\ last'.exc = "none" ->
            LET reason == last'.arg[2]
            IN  /\ reason.py = "None" => _health_reason' = NoneVal
                /\ reason.py = "str" => _health_reason' = reason
                /\ reason.py = "int" => _health_reason' = [py |-> "str", s |-> ToString(reason.n)]
       [] last'.op = "log" /\ last'.exc = "none"
            /\ last'.arg[2] \in {"warn", "warning", "err", "error", "fatal"} ->
            _health_reason' = [py |-> "str", s |-> "[" \o node_name \o "] " \o last'.arg[1]]
       [] last'.op = "__init__" /\ last'.exc = "none" -> _health_reason' = NoneVal
       [] OTHER -> _health_reason' = _health_reason]_vars

\* set_health(HEALTHY) without a reason on a node that was in ERROR with a reason.
C17_Witness ==
  /\ last.op = "set_health"
  /\ last.exc = "none"
  /\ last.arg = <<Enum("NodeHealth", "HEALTHY"), NoneVal>>
  /\ last.seen._health = Enum("NodeHealth", "ERROR")
  /\ last.seen._health_reason # NoneVal
  /\ _health_reason = NoneVal

\* C18: a channel is created active whatever the node's switch is, and creating it
\* changes no other flag and not the switch; registering a channel changes no flag
\* and not the switch; a flag changes only in a ~switch call or an assignment by
\* application code, and a publish on an active publisher hands its payload on.
C18_NewChannelActive ==
  [][/\ last'.op \in {"DTPublisher", "DTSubscriber"} =>
          /\ Len(active') = Len(active) + 1
          /\ active'[Len(active')] = TRUE
          /\ \A c \in DOMAIN active : active'[c] = active[c]
          /\ _switch' = _switch
     /\ last'.op \in {"_register_publisher", "_register_subscriber"} =>
          /\ last'.arg[1] \in Range(_publishers') \cup Range(_subscribers')
          /\ UNCHANGED <<active, _switch>>
     /\ (\E c \in DOMAIN active : active'[c] # active[c]) =>
          last'.op \in {"switch", "set_active"}
     /\ (last'.op = "publish" /\ active[last'.arg[1]]) =>
          last'.ret = <<last'.arg[2]>>]_vars

\* A publish handed on by a registered publisher that is active on a node that is
\* switched off.
C18_Witness ==
  /\ initialized
  /\ ~_switch
  /\ last.op = "publish"
  /\ last.arg[1] \in Range(_publishers)
  /\ active[last.arg[1]]
  /\ last.ret = <<last.arg[2]>>

\* C15: on a constructed node health and reason change only in a set_health call or
\* in a log at warn, err or fatal: the switch service, the parameter services,
\* _add_param, the creation and registration of channels, publish, log at debug or
\* info and the shutdown hook leave both; a node in ERROR or FATAL becomes HEALTHY
\* only in a set_health(HEALTHY) call.
C15_HealthFrame ==
  [][initialized =>
       /\ (_health' # _health \/ _health_reason' # _health_reason) =>
            \/ last'.op = "set_health"
            \/ last'.op = "log" /\ last'.arg[2] \in {"warn", "warning", "err", "error", "fatal"}
       /\ last'.op \in {"switch", "get_params_list", "request_param_update", "_add_param",
                        "DTPublisher", "DTSubscriber", "_register_publisher",
                        "_register_subscriber", "publish", "onShutdown", "__init__"} =>
            UNCHANGED <<_health, _health_reason>>
       /\ (last'.op = "log" /\ last'.arg[2] \in {"debug", "info"}) =>
            UNCHANGED <<_health, _health_reason>>
       /\ (_health \in {Enum("NodeHealth", "ERROR"), Enum("NodeHealth", "FATAL")}
             /\ _health' = Enum("NodeHealth", "HEALTHY")) =>
            (last'.op = "set_health" /\ last'.arg[1] = Enum("NodeHealth", "HEALTHY"))]_vars

\* A node still in FATAL after it was switched off: it has a registered publisher
\* and a parameter, and its shutdown hook has run.
C15_Witness ==
  /\ last.op = "switch"
  /\ last.arg[1] = FALSE
  /\ is_shutdown
  /\ Len(_publishers) > 0
  /\ Len(_parameters) > 0
  /\ _health = Enum("NodeHealth", "FATAL")
  /\ _health_reason # NoneVal

\* C20: is_shutdown is false after a construction, becomes true in the shutdown
\* hook and in no other call, and no call makes it false again; the hook leaves the
\* switch, every channel's flag, health, reason, the parameters and the channel lists
\* as they were, and after it a publish on an active publisher still hands its
\* payload on.
C20_ShutdownFrame ==
  [][/\ (last'.op = "__init__" /\ last'.exc = "none") => ~is_shutdown'
     /\ is_shutdown => is_shutdown'
     /\ is_shutdown' # is_shutdown => last'.op = "onShutdown"
     /\ last'.op = "onShutdown" =>
          /\ is_shutdown'
          /\ UNCHANGED <<_switch, active, kind, _health, _health_reason, _parameters,
                         _publishers, _subscribers, node_name, __instance__, initialized>>
     /\ (is_shutdown /\ last'.op = "publish" /\ active[last'.arg[1]]) =>
          last'.ret = <<last'.arg[2]>>]_vars

\* A publish handed on by a registered, active publisher after the shutdown hook has
\* run, on a node that is switched on.
C20_Witness ==
  /\ is_shutdown
  /\ _switch
  /\ last.op = "publish"
  /\ last.arg[1] \in Range(_publishers)
  /\ active[last.arg[1]]
  /\ last.ret = <<"x">>

\* C13: while channels are registered between the statements of ~switch calls, no
\* registered channel leaves the node's lists, and when a ~switch call returns every
\* channel that was registered when the call began has the requested value as its
\* active flag.
C13_RegistrationSafe ==
  [][/\ \A c \in Registered : c \in Range(_publishers') \cup Range(_subscribers')
     /\ \A t \in DOMAIN sw' :
          sw'[t].pc = "done" => \A c \in sw'[t].before : active'[c] = sw'[t].data]_vars

\* A switch-off call that has returned: a publisher registered before it began is
\* inactive, and a channel registered while it ran is still active.
C13_Witness ==
  /\ sw[1].pc = "done"
  /\ ~sw[1].data
  /\ \E p \in Range(_publishers) : p \in sw[1].before /\ ~active[p]
  /\ \E c \in Registered \ sw[1].before : active[c]

\* C14: when two set_health calls with different healths and reasons have
\* interleaved and both have returned, health and reason are the pair one of the two
\* calls was given, and with diagnostics enabled the health each call handed to
\* update_node is the one that call was given.
C14_HealthPairNotMixed ==
  (\A t \in Threads : sw[t].pc = "done") =>
    /\ \E t \in Threads :
         /\ _health = sw[t].health
         /\ _health_reason = sw[t].reason
    /\ diagEnabled => \A t \in Threads : sw[t].sent = sw[t].health

====
